---- MODULE Spec2Model ----
(***************************************************************************)
(* Model of the CDR scheduler.                                             *)
(*                                                                         *)
(*  - src/cdr_scheduler.py: the controller (class Control) which keeps    *)
(*    the APScheduler engine synchronised with the scheduled_job table,   *)
(*    and the callback Control.Job.run which dispatches a job.            *)
(*  - src/Scheduler/cdr_scheduler.py: the earlier ndscheduler server      *)
(*    (class CDRScheduler) with its start-up sweep fix_zombies().         *)
(*                                                                         *)
(* Python dictionaries are functions whose DOMAIN is the set of keys.     *)
(* A pending Python exception is the field exc of the record threaded     *)
(* through the statements of a method: a statement does nothing when an   *)
(* exception is pending, and a try/except clears it.                      *)
(***************************************************************************)
EXTENDS Integers, Sequences, FiniteSets, TLC

VARIABLES
    pc,         \* position of Control.run(): "init", "loaded", "check", "sleep",
                \* "exiting", "done"; "select_failed" and "failed" when an
                \* exception left run() from the SELECT or from remove_job;
                \* "interrupted" in the except clause of the loop; "exit0"
                \* when the script has ended, with exit status 0
    table,      \* the scheduled_job table: id -> row
    nextId,     \* the id the table gives to the next row inserted
    jobs,       \* Control.jobs: id -> row of the Control.Job held as handle
    sched,      \* recurring registrations of the BackgroundScheduler: id -> job
    oneshots,   \* one-off jobs submitted to the BackgroundScheduler, not yet run
    engine,     \* "new", "started" or "shutdown"
    stopped,    \* Control.stopped
    calls,      \* engine and store calls made by the latest load/refresh pass
    failed,     \* ids whose row was logged as "malformed job" in the latest pass
    lastRun,    \* outcome of the latest callback executed by the engine
    dirty,      \* the table was edited by the administration tool since the latest pass
    edits,      \* number of edits made by the administration tool
    faults,     \* number of injected store faults
    zpc,        \* position of CDRScheduler.start_scheduler()
    executions, \* the ndscheduler executions table: eid -> [state, description]
    atStart,    \* the executions table as it was when the process started
    sweeps,     \* number of times fix_zombies() was entered
    zlog        \* eids logged as "marking zombie ... as FAILED"

vars == <<pc, table, nextId, jobs, sched, oneshots, engine, stopped, calls, failed,
          lastRun, dirty, edits, faults,
          zpc, executions, atStart, sweeps, zlog>>

ctlVars == <<pc, table, nextId, jobs, sched, oneshots, engine, stopped, calls, failed,
             lastRun, dirty, edits, faults>>

zVars == <<zpc, executions, atStart, sweeps, zlog>>

----------------------------------------------------------------------------
(* Bounds of the model *)

MaxEdits == 2       \* edits made by the administration tool
MaxFaults == 1      \* store faults (failing read, failing delete)
MaxExecs == 3       \* eids of the executions table are 1..MaxExecs

JobIds == {1, 2}    \* the ids of the rows ever inserted, given in this order

----------------------------------------------------------------------------
(* Python dictionaries *)

Put(d, k, v) == [x \in (DOMAIN d) \cup {k} |-> IF x = k THEN v ELSE d[x]]

Del(d, k) == [x \in (DOMAIN d) \ {k} |-> d[x]]

EmptyDict == [x \in {} |-> 0]

----------------------------------------------------------------------------
(* Column values of scheduled_job.  The schedule and opts columns hold     *)
(* serialized JSON; NULL is written "NULL".                                *)

NULL == "NULL"

SchedDaily1  == "{\"hour\":\"1\"}"
SchedDaily1s == "{ \"hour\": \"1\" }"
SchedDaily2  == "{\"hour\":\"2\"}"
SchedHour99  == "{\"hour\":\"99\"}"
SchedBroken  == "{\"hour\""

Schedules == {NULL, "", "{}", SchedDaily1, SchedDaily1s, SchedDaily2,
              SchedHour99, SchedBroken}

Names == {"n1", "n2"}

JobClasses == {"test.Stub", "stop_scheduler.Stop", "trial_info.Loader", "Stub"}

OptsValues == {"{}", "{\"dbserver\""}

OptsDbserver == "{\"dbserver\":\"x\"}"
OptsCommand  == "{\"command\":\"date\"}"

Rows == [id : JobIds, name : Names, job_class : JobClasses,
         opts : OptsValues, enabled : BOOLEAN, schedule : Schedules]

(* json.loads on the values above: raises on text which is not JSON,      *)
(* otherwise yields a dict, written as its set of items.                  *)
Loads(s) ==
    CASE s = "{}"          -> [raises |-> FALSE, value |-> {}]
      [] s = SchedDaily1   -> [raises |-> FALSE, value |-> {<<"hour", "1">>}]
      [] s = SchedDaily1s  -> [raises |-> FALSE, value |-> {<<"hour", "1">>}]
      [] s = SchedDaily2   -> [raises |-> FALSE, value |-> {<<"hour", "2">>}]
      [] s = SchedHour99   -> [raises |-> FALSE, value |-> {<<"hour", "99">>}]
      [] s = OptsDbserver  -> [raises |-> FALSE, value |-> {<<"dbserver", "x">>}]
      [] s = OptsCommand   -> [raises |-> FALSE, value |-> {<<"command", "date">>}]
      [] OTHER             -> [raises |-> TRUE,  value |-> {}]

(* Mutation of Schedule: every column which is not NULL is parsed. *)
Schedule_strict(row) ==
    IF row.schedule = NULL
    THEN [raises |-> FALSE, value |-> {}]
    ELSE Loads(row.schedule)

(* Control.Job.schedule: the column is parsed only when it is truthy     *)
(* (neither NULL nor the empty string); NULL and "" are returned as they  *)
(* are, and both are falsy, as is the empty dict.                          *)
Schedule(row) ==
    IF row.schedule = NULL \/ row.schedule = ""
    THEN [raises |-> FALSE, value |-> {}]
    ELSE Loads(row.schedule)

Truthy(value) == value # {}

(* The cron fields CronTrigger accepts; it raises ValueError otherwise.   *)
CronAccepts(fields) == \A f \in fields : f \in {<<"hour", "1">>, <<"hour", "2">>}

----------------------------------------------------------------------------
(* The state a pass works on, threaded through its statements:            *)
(*   jobs, sched, oneshots, table  as the variables of the same names,    *)
(*   calls   the calls made so far, failed  the ids logged as malformed,  *)
(*   exc     TRUE while an exception is propagating.                      *)

Call(op, id) == [op |-> op, id |-> id]

Log(c, op, id) == [c EXCEPT !.calls = Append(@, Call(op, id))]

Raise(c) == [c EXCEPT !.exc = TRUE]

(* BackgroundScheduler.add_job(func, "cron", id=, name=, [next_run_time=None,] **fields) *)
AddRecurring(c, row, fields, suspended) ==
    IF c.exc THEN c
    ELSE LET d == Log(c, "addRecurring", row.id) IN
         IF ~CronAccepts(fields) \/ row.id \in DOMAIN c.sched
         THEN Raise(d)
         ELSE [d EXCEPT !.sched = Put(@, row.id,
                   [func |-> row, name |-> row.name,
                    trigger |-> fields, paused |-> suspended])]

(* BackgroundScheduler.add_job(func, name=): a job with a date trigger,  *)
(* due at once, with an id of the engine's own; the call raises for the   *)
(* rows which the engine rejects in this pass.                             *)
AddOneShot(c, row) ==
    IF c.exc THEN c
    ELSE LET d == Log(c, "addOneShot", row.id) IN
         IF row.id \in c.rejected
         THEN Raise(d)
         ELSE [d EXCEPT !.oneshots = Append(@, row)]

(* Mutation of ModifyJob: the callback is not rebound. *)
ModifyJob_nameonly(c, id, row) ==
    IF c.exc THEN c
    ELSE LET d == Log(c, "modify", id) IN
         IF id \notin DOMAIN c.sched
         THEN Raise(d)
         ELSE [d EXCEPT !.sched[id].name = row.name]

(* BackgroundScheduler.modify_job(id, func=, name=) *)
ModifyJob(c, id, row) ==
    IF c.exc THEN c
    ELSE LET d == Log(c, "modify", id) IN
         IF id \notin DOMAIN c.sched
         THEN Raise(d)
         ELSE [d EXCEPT !.sched[id].func = row, !.sched[id].name = row.name]

(* BackgroundScheduler.reschedule_job(id, trigger="cron", **fields): the *)
(* engine builds the trigger, computes the next run time from it and      *)
(* stores both, so the job is due again even when it was paused.          *)
RescheduleJob(c, id, fields) ==
    IF c.exc THEN c
    ELSE LET d == Log(c, "reschedule", id) IN
         IF ~CronAccepts(fields) \/ id \notin DOMAIN c.sched
         THEN Raise(d)
         ELSE [d EXCEPT !.sched[id].trigger = fields, !.sched[id].paused = FALSE]

(* BackgroundScheduler.pause_job(id) *)
PauseJob(c, id) ==
    IF c.exc THEN c
    ELSE LET d == Log(c, "pause", id) IN
         IF id \notin DOMAIN c.sched
         THEN Raise(d)
         ELSE [d EXCEPT !.sched[id].paused = TRUE]

(* BackgroundScheduler.resume_job(id) *)
ResumeJob(c, id) ==
    IF c.exc THEN c
    ELSE LET d == Log(c, "resume", id) IN
         IF id \notin DOMAIN c.sched
         THEN Raise(d)
         ELSE [d EXCEPT !.sched[id].paused = FALSE]

(* BackgroundScheduler.remove_job(id) *)
RemoveJob(c, id) ==
    IF c.exc THEN c
    ELSE LET d == Log(c, "remove", id) IN
         IF id \notin DOMAIN c.sched
         THEN Raise(d)
         ELSE [d EXCEPT !.sched = Del(@, id)]

(* Control.delete_job: a failure of the DELETE is logged, never raised.   *)
delete_job(c, id, deleteFails) ==
    IF c.exc THEN c
    ELSE LET d == Log(c, "delete", id) IN
         IF deleteFails THEN d ELSE [d EXCEPT !.table = Del(@, id)]

(* del self.__control.jobs[self.id] *)
DropHandle(c, id) ==
    IF c.exc THEN c ELSE [c EXCEPT !.jobs = Del(@, id)]

(* self.__control.jobs[self.id] = self *)
StoreHandle(c, row) ==
    IF c.exc THEN c ELSE [c EXCEPT !.jobs = Put(@, row.id, row)]

(* Mutation of JobEq: two Job objects never compare equal. *)
JobEq_never(row, other) == FALSE

(* Mutation of JobEq: the opts column is left out of the comparison. *)
JobEq_noopts(row, other) ==
    [row EXCEPT !.opts = "{}"] = [other EXCEPT !.opts = "{}"]

(* Control.Job.__eq__: the rows compared as tuples of all their columns.  *)
JobEq(row, other) == row = other

(* Mutation of ScheduleRemoved: the handle is left in the map. *)
ScheduleRemoved_keeps(c, row, deleteFails) ==
    LET c1 == RemoveJob(c, row.id) IN
    IF row.enabled
    THEN delete_job(AddOneShot(c1, row), row.id, deleteFails)
    ELSE c1

(* Mutation of ScheduleRemoved: the one-off run is left out. *)
ScheduleRemoved_norun(c, row, deleteFails) ==
    RemoveJob(DropHandle(c, row.id), row.id)

(* Mutation of ScheduleRemoved: the one-off run does not look at enabled. *)
ScheduleRemoved_always(c, row, deleteFails) ==
    LET c1 == RemoveJob(DropHandle(c, row.id), row.id) IN
    delete_job(AddOneShot(c1, row), row.id, deleteFails)

(* Mutation of ScheduleRemoved: the one-off run needs the job to have     *)
(* been enabled already.                                                    *)
ScheduleRemoved_wasenabled(c, row, deleteFails) ==
    LET c1 == RemoveJob(DropHandle(c, row.id), row.id) IN
    IF row.enabled /\ c.jobs[row.id].enabled
    THEN delete_job(AddOneShot(c1, row), row.id, deleteFails)
    ELSE c1

(* The branch of register() for a handle whose row lost its schedule.     *)
ScheduleRemoved(c, row, deleteFails) ==
    LET c1 == RemoveJob(DropHandle(c, row.id), row.id) IN
    IF row.enabled
    THEN delete_job(AddOneShot(c1, row), row.id, deleteFails)
    ELSE c1

(* Mutation of ToggleEnabled: pause and resume are taken for each other. *)
ToggleEnabled_swapped(c, old, row) ==
    IF ~old.enabled /\ row.enabled THEN PauseJob(c, row.id)
    ELSE IF ~row.enabled /\ old.enabled THEN ResumeJob(c, row.id)
    ELSE c

(* The toggle of the enabled flag at the end of the modified branch.      *)
ToggleEnabled(c, old, row) ==
    IF ~old.enabled /\ row.enabled THEN ResumeJob(c, row.id)
    ELSE IF ~row.enabled /\ old.enabled THEN PauseJob(c, row.id)
    ELSE c

(* Mutation of Modified: the job is rescheduled whatever the schedules are. *)
Modified_always(c, old, row) ==
    LET c1 == ModifyJob(StoreHandle(c, row), row.id, row)
        c2 == RescheduleJob(c1, row.id, Schedule(row).value)
    IN ToggleEnabled(c2, old, row)

(* The branch of register() for a handle whose changed row has a schedule. *)
Modified(c, old, row) ==
    LET c1 == ModifyJob(StoreHandle(c, row), row.id, row)
        c2 == IF Schedule(old).value # Schedule(row).value
              THEN RescheduleJob(c1, row.id, Schedule(row).value)
              ELSE c1
    IN ToggleEnabled(c2, old, row)

(* Mutation of NewRecurring: the Job is not stored after add_job. *)
NewRecurring_unstored(c, row) ==
    AddRecurring(c, row, Schedule(row).value, ~row.enabled)

(* Mutation of NewRecurring: next_run_time is never set to None. *)
NewRecurring_awake(c, row) ==
    StoreHandle(AddRecurring(c, row, Schedule(row).value, FALSE), row)

(* The branch of register() for a row with a schedule and no handle.      *)
NewRecurring(c, row) ==
    StoreHandle(AddRecurring(c, row, Schedule(row).value, ~row.enabled), row)

(* Mutation of NewOneShot: the row is dropped before the job is added. *)
NewOneShot_deletefirst(c, row, deleteFails) ==
    AddOneShot(delete_job(c, row.id, deleteFails), row)

(* Mutation of NewOneShot: the row is not dropped from the table. *)
NewOneShot_kept(c, row, deleteFails) == AddOneShot(c, row)

(* The branch of register() for an enabled row with no schedule and no handle. *)
NewOneShot(c, row, deleteFails) ==
    delete_job(AddOneShot(c, row), row.id, deleteFails)

(* Mutation of register: a row with no schedule and no handle is run once *)
(* whether it is enabled or not.                                            *)
register_eager(c, row, deleteFails) ==
    IF row.id \in DOMAIN c.jobs
    THEN LET old == c.jobs[row.id] IN
         IF JobEq(row, old) THEN c
         ELSE IF Schedule(row).raises THEN Raise(c)
         ELSE IF ~Truthy(Schedule(row).value)
              THEN ScheduleRemoved(c, row, deleteFails)
              ELSE Modified(c, old, row)
    ELSE IF Schedule(row).raises THEN Raise(c)
    ELSE IF Truthy(Schedule(row).value) THEN NewRecurring(c, row)
    ELSE NewOneShot(c, row, deleteFails)

(* Control.Job.register *)
register(c, row, deleteFails) ==
    IF row.id \in DOMAIN c.jobs
    THEN LET old == c.jobs[row.id] IN
         IF JobEq(row, old) THEN c
         ELSE IF Schedule(row).raises THEN Raise(c)
         ELSE IF ~Truthy(Schedule(row).value)
              THEN ScheduleRemoved(c, row, deleteFails)
              ELSE Modified(c, old, row)
    ELSE IF Schedule(row).raises THEN Raise(c)
    ELSE IF Truthy(Schedule(row).value) THEN NewRecurring(c, row)
    ELSE IF row.enabled THEN NewOneShot(c, row, deleteFails)
    ELSE c

(* Mutation of ProcessRow: after a malformed row the rest are left out. *)
ProcessRow_skiprest(c, row, deleteFails) ==
    IF c.failed # {} THEN c
    ELSE LET d == register(c, row, deleteFails) IN
         IF d.exc THEN [d EXCEPT !.exc = FALSE, !.failed = @ \cup {row.id}] ELSE d

(* The body of the loop over the rows: try: register() except Exception:  *)
(* log "malformed job".                                                    *)
ProcessRow(c, row, deleteFails) ==
    LET d == register(c, row, deleteFails) IN
    IF d.exc THEN [d EXCEPT !.exc = FALSE, !.failed = @ \cup {row.id}] ELSE d

(* The loop over the rows fetched by SELECT, taken in the order of the id. *)
RECURSIVE ProcessRows(_, _, _, _)
ProcessRows(c, rows, ids, failing) ==
    IF ids = {} THEN c
    ELSE LET id == CHOOSE i \in ids : \A j \in ids : i <= j IN
         ProcessRows(ProcessRow(c, rows[id], id \in failing), rows,
                     ids \ {id}, failing)

(* The loop of __refresh_jobs over set(self.jobs) - found; remove_job is  *)
(* not guarded, so an exception it raises leaves the loop and the method.  *)
RECURSIVE DropMissing(_, _)
DropMissing(c, ids) ==
    IF ids = {} \/ c.exc THEN c
    ELSE LET id == CHOOSE i \in ids : \A j \in ids : i <= j IN
         DropMissing(DropHandle(RemoveJob(c, id), id), ids \ {id})

PassStart == [jobs |-> jobs, sched |-> sched, oneshots |-> oneshots,
              table |-> table, calls |-> << >>, failed |-> {}, exc |-> FALSE,
              rejected |-> {}]

(* Control.__load_jobs, after a successful SELECT *)
load_jobs(c, failing) == ProcessRows(c, c.table, DOMAIN c.table, failing)

(* Mutation of refresh_jobs: handles whose row is gone are kept. *)
refresh_jobs_keep(c, failing) ==
    ProcessRows(c, c.table, DOMAIN c.table, failing)

(* Control.__refresh_jobs, after a successful SELECT *)
refresh_jobs(c, failing) ==
    LET found == DOMAIN c.table
        d == ProcessRows(c, c.table, found, failing)
    IN DropMissing(d, (DOMAIN d.jobs) \ found)

----------------------------------------------------------------------------
(* Control.Job.run, the callback the engine invokes.                      *)

(* What run() of the implementing class can do: return, raise an error    *)
(* derived from Exception, or leave by SystemExit (jobs/trial_info.py     *)
(* calls exit(1) while building a Concept).                                *)
RunOutcomes(job_class) ==
    CASE job_class = "stop_scheduler.Stop" -> {"returns"}
      [] job_class = "test.Stub"           -> {"returns", "raises"}
      [] job_class = "trial_info.Loader"   -> {"returns", "raises", "exits"}
      [] OTHER                             -> {"returns"}

(* The job_class strings, as the pieces which their dots separate. *)
Segments(job_class) ==
    CASE job_class = "test.Stub"           -> <<"test", "Stub">>
      [] job_class = "stop_scheduler.Stop" -> <<"stop_scheduler", "Stop">>
      [] job_class = "trial_info.Loader"   -> <<"trial_info", "Loader">>
      [] job_class = "test.Stub.run"       -> <<"test", "Stub", "run">>
      [] job_class = "publishing_queue.Sweeper"
                                           -> <<"publishing_queue", "Sweeper">>
      [] OTHER                             -> <<job_class>>

(* module_name, class_name = self.job_class.split(".", 1): the string is  *)
(* split at its first dot, and the unpacking raises when it has none; the *)
(* two names are written as their pieces.                                  *)
Split(job_class) ==
    LET seg == Segments(job_class) IN
    IF Len(seg) < 2
    THEN [raises |-> TRUE, module |-> << >>, type |-> << >>]
    ELSE [raises |-> FALSE, module |-> <<Head(seg)>>, type |-> Tail(seg)]

(* import_module(f"jobs.{module_name}") and getattr(module, class_name)   *)
(* succeed for the classes of the package jobs.                             *)
ClassExists(module, type) ==
    <<module, type>> \in {<< <<"test">>, <<"Stub">> >>,
                          << <<"stop_scheduler">>, <<"Stop">> >>,
                          << <<"trial_info">>, <<"Loader">> >>,
                          << <<"publishing_queue">>, <<"Sweeper">> >>}

(* The split and the lookup of the class succeed. *)
Resolves(job_class) ==
    LET sp == Split(job_class) IN
    ~sp.raises /\ ClassExists(sp.module, sp.type)

(* SUPPORTED_PARAMETERS of the class: None in the base class, which Stub  *)
(* keeps, a set of names in Stop and in Loader, and an empty collection   *)
(* in Sweeper.                                                               *)
SupportedParameters(job_class) ==
    CASE job_class = "stop_scheduler.Stop"
           -> [restricted |-> TRUE, names |-> {"dbserver"}]
      [] job_class = "trial_info.Loader"
           -> [restricted |-> TRUE,
               names |-> {"auth", "concepts", "debug", "dump", "groups", "host",
                          "limit", "port", "sleep", "test", "verbose"}]
      [] job_class = "publishing_queue.Sweeper"
           -> [restricted |-> TRUE, names |-> {}]
      [] OTHER -> [restricted |-> FALSE, names |-> {}]

(* Mutation of InitRaises: an empty SUPPORTED_PARAMETERS counts as none.  *)
InitRaises_falsy(job_class, opts) ==
    LET sup == SupportedParameters(job_class) IN
    /\ opts # {}
    /\ sup.restricted
    /\ sup.names # {}
    /\ {item[1] : item \in opts} \ sup.names # {}

(* jobs.base_job.Job.__init__(control, name, **opts) raises when opts has *)
(* a parameter which the class does not support.                           *)
InitRaises(job_class, opts) ==
    LET sup == SupportedParameters(job_class) IN
    /\ opts # {}
    /\ sup.restricted
    /\ {item[1] : item \in opts} \ sup.names # {}

(* Mutation of Dispatch: run() is invoked on the class when constructing  *)
(* it failed.                                                                *)
Dispatch_unbuilt(row, outcome) ==
    LET sp == Split(row.job_class)
        resolved == Resolves(row.job_class)
        opts == Loads(row.opts)
        constructed == /\ resolved
                       /\ ~opts.raises
                       /\ ~InitRaises(row.job_class, opts.value)
    IN [id |-> row.id, module |-> sp.module, type |-> sp.type,
        resolved |-> resolved, constructed |-> constructed,
        args |-> IF constructed THEN <<"control", row.name, opts.value>>
                 ELSE << >>,
        runs |-> IF resolved THEN 1 ELSE 0,
        result |-> IF ~resolved THEN "caught"
                   ELSE CASE outcome = "returns" -> "ok"
                          [] outcome = "raises"  -> "caught"
                          [] OTHER               -> "escaped"]

(* The whole of Control.Job.run for the job `row`, `outcome` being what   *)
(* the run() of the implementation does: the names the class was looked   *)
(* up by, whether it was found and constructed, the arguments it was      *)
(* constructed with, how many times its run() was invoked, and the        *)
(* result: "ok" when the job ran, "caught" when the except clause logged  *)
(* an exception, "escaped" when what was raised is no Exception and       *)
(* leaves the callback.                                                     *)
Dispatch(row, outcome) ==
    LET sp == Split(row.job_class)
        resolved == Resolves(row.job_class)
        opts == Loads(row.opts)
        constructed == /\ resolved
                       /\ ~opts.raises
                       /\ ~InitRaises(row.job_class, opts.value)
    IN [id |-> row.id, module |-> sp.module, type |-> sp.type,
        resolved |-> resolved, constructed |-> constructed,
        args |-> IF constructed THEN <<"control", row.name, opts.value>>
                 ELSE << >>,
        runs |-> IF constructed THEN 1 ELSE 0,
        result |-> IF ~constructed THEN "caught"
                   ELSE CASE outcome = "returns" -> "ok"
                          [] outcome = "raises"  -> "caught"
                          [] OTHER               -> "escaped"]

(* The result of Control.Job.run. *)
JobRun(row, outcome) == Dispatch(row, outcome).result

(* Stop.run calls control.stop(), which sets the flag. *)
StopsControl(row, outcome) ==
    /\ row.job_class = "stop_scheduler.Stop"
    /\ JobRun(row, outcome) = "ok"

----------------------------------------------------------------------------
(* The controller *)

NoRun == [id |-> 0, result |-> "none"]

ZOff ==
    /\ zpc = "off"
    /\ executions = EmptyDict
    /\ atStart = EmptyDict
    /\ sweeps = 0
    /\ zlog = {}

Init ==
    /\ pc = "init"
    /\ table = EmptyDict
    /\ nextId = 1
    /\ jobs = EmptyDict
    /\ sched = EmptyDict
    /\ oneshots = << >>
    /\ engine = "new"
    /\ stopped = FALSE
    /\ calls = << >>
    /\ failed = {}
    /\ lastRun = NoRun
    /\ dirty = FALSE
    /\ edits = 0
    /\ faults = 0
    /\ ZOff

(* The administration tool changes the table, before the scheduler is    *)
(* started or while it runs.  A pass reads the table in one SELECT, so    *)
(* only the edits made before that read matter to it: they are taken      *)
(* while run() has not begun or is in sleep().                             *)
Edited ==
    /\ pc \in {"init", "sleep"}
    /\ edits < MaxEdits
    /\ edits' = edits + 1
    /\ dirty' = TRUE
    /\ UNCHANGED <<pc, jobs, sched, oneshots, engine, stopped, calls, failed,
                   lastRun, faults>>
    /\ UNCHANGED zVars

(* A row as the administration tool first stores it. *)
NewRows == [id : JobIds, name : {"n1"}, job_class : {"test.Stub"},
            opts : {"{}"}, enabled : BOOLEAN, schedule : Schedules]

(* An update changes the schedule and the enabled flag, or one of the     *)
(* other columns; the id never changes.                                    *)
Updates(old) ==
    ({[old EXCEPT !.schedule = s, !.enabled = e] :
          s \in Schedules, e \in BOOLEAN}
     \cup {[old EXCEPT !.name = n] : n \in Names}
     \cup {[old EXCEPT !.job_class = j] : j \in JobClasses}
     \cup {[old EXCEPT !.opts = o] : o \in OptsValues}) \ {old}

InsertRow ==
    \E row \in NewRows :
        /\ row.id = nextId     \* an identity column: ids are not reused
        /\ table' = Put(table, row.id, row)
        /\ nextId' = nextId + 1
        /\ Edited

UpdateRow ==
    \E id \in DOMAIN table :
      \E row \in Updates(table[id]) :
        /\ table' = Put(table, id, row)
        /\ UNCHANGED nextId
        /\ Edited

DeleteRow ==
    \E id \in DOMAIN table :
        /\ table' = Del(table, id)
        /\ UNCHANGED nextId
        /\ Edited

(* The ids for which delete_job was called by the pass that ended in c.   *)
Deleted(c) == {c.calls[k].id : k \in {n \in DOMAIN c.calls : c.calls[n].op = "delete"}}

(* The state of a pass becomes the state of the program. *)
Commit(c) ==
    /\ jobs' = c.jobs
    /\ sched' = c.sched
    /\ oneshots' = c.oneshots
    /\ table' = c.table
    /\ calls' = c.calls
    /\ failed' = c.failed
    /\ dirty' = FALSE

(* Mutation of ReadFails: the exception is swallowed and run() goes on. *)
ReadFails_swallowed ==
    /\ faults < MaxFaults
    /\ faults' = faults + 1
    /\ pc' = IF pc = "init" THEN "loaded" ELSE "check"
    /\ calls' = << >>
    /\ failed' = {}
    /\ UNCHANGED <<table, nextId, jobs, sched, oneshots, engine, stopped,
                   lastRun, dirty, edits>>

(* The SELECT of a pass fails: the exception leaves the pass and run().   *)
ReadFails ==
    /\ faults < MaxFaults
    /\ faults' = faults + 1
    /\ pc' = "select_failed"
    /\ calls' = << >>
    /\ failed' = {}
    /\ UNCHANGED <<table, nextId, jobs, sched, oneshots, engine, stopped,
                   lastRun, dirty, edits>>

(* Control.run up to scheduler.start(): __load_jobs *)
LoadJobs ==
    /\ pc = "init"
    /\ \/ ReadFails
       \/ \E failing \in SUBSET (DOMAIN table) :
            LET c == load_jobs(PassStart, failing) IN
            /\ failing \subseteq Deleted(c)
            /\ faults + Cardinality(failing) <= MaxFaults
            /\ faults' = faults + Cardinality(failing)
            /\ Commit(c)
            /\ pc' = "loaded"
            /\ UNCHANGED <<nextId, engine, stopped, lastRun, edits>>
    /\ UNCHANGED zVars

(* self.scheduler.start() *)
StartEngine ==
    /\ pc = "loaded"
    /\ engine' = "started"
    /\ pc' = "check"
    /\ UNCHANGED <<table, nextId, jobs, sched, oneshots, stopped, calls, failed,
                   lastRun, dirty, edits, faults>>
    /\ UNCHANGED zVars

(* Mutation of LoopTest: the flag is not looked at. *)
LoopTest_blind ==
    /\ pc = "check"
    /\ pc' = "sleep"
    /\ UNCHANGED <<table, nextId, jobs, sched, oneshots, engine, stopped, calls,
                   failed, lastRun, dirty, edits, faults>>
    /\ UNCHANGED zVars

(* while not self.stopped *)
LoopTest ==
    /\ pc = "check"
    /\ pc' = IF stopped THEN "exiting" ELSE "sleep"
    /\ UNCHANGED <<table, nextId, jobs, sched, oneshots, engine, stopped, calls,
                   failed, lastRun, dirty, edits, faults>>
    /\ UNCHANGED zVars

(* Mutation of RefreshJobs: the pass waits for the running job to end. *)
RefreshJobs_waits ==
    /\ pc = "sleep"
    /\ lastRun.result # "running"
    /\ \/ ReadFails
       \/ \E failing \in SUBSET (DOMAIN table) :
            LET c == refresh_jobs(PassStart, failing) IN
            /\ failing \subseteq Deleted(c)
            /\ faults + Cardinality(failing) <= MaxFaults
            /\ faults' = faults + Cardinality(failing)
            /\ Commit(c)
            /\ pc' = IF c.exc THEN "failed" ELSE "check"
            /\ UNCHANGED <<nextId, engine, stopped, lastRun, edits>>
    /\ UNCHANGED zVars

(* sleep(self.SLEEP); self.__refresh_jobs() *)
RefreshJobs ==
    /\ pc = "sleep"
    /\ \/ ReadFails
       \/ \E failing \in SUBSET (DOMAIN table) :
            LET c == refresh_jobs(PassStart, failing) IN
            /\ failing \subseteq Deleted(c)
            /\ faults + Cardinality(failing) <= MaxFaults
            /\ faults' = faults + Cardinality(failing)
            /\ Commit(c)
            /\ pc' = IF c.exc THEN "failed" ELSE "check"
            /\ UNCHANGED <<nextId, engine, stopped, lastRun, edits>>
    /\ UNCHANGED zVars

(* Mutation of Shutdown: the engine is shut down from inside the loop. *)
Shutdown_inloop ==
    /\ pc \in {"exiting", "sleep"}
    /\ lastRun.result # "running"
    /\ engine' = "shutdown"
    /\ pc' = "done"
    /\ UNCHANGED <<table, nextId, jobs, sched, oneshots, stopped, calls, failed,
                   lastRun, dirty, edits, faults>>
    /\ UNCHANGED zVars

(* self.scheduler.shutdown(): with wait left at its default, it returns   *)
(* when the jobs which are running have ended.                             *)
Shutdown ==
    /\ pc = "exiting"
    /\ lastRun.result # "running"
    /\ engine' = "shutdown"
    /\ pc' = "done"
    /\ UNCHANGED <<table, nextId, jobs, sched, oneshots, stopped, calls, failed,
                   lastRun, dirty, edits, faults>>
    /\ UNCHANGED zVars

(* __main__: control.run() has returned, or has raised an Exception which *)
(* the except clause logs and prints; in both cases the script runs off   *)
(* its end, and the interpreter exits with status 0.                       *)
MainReturns ==
    /\ pc \in {"done", "select_failed", "failed"}
    /\ pc' = "exit0"
    /\ UNCHANGED <<table, nextId, jobs, sched, oneshots, engine, stopped, calls,
                   failed, lastRun, dirty, edits, faults>>
    /\ UNCHANGED zVars

(* The engine runs the callback of a recurring job which is due, in a     *)
(* thread of the process of the controller.                                *)
FireRecurring ==
    \E id \in DOMAIN sched :
        /\ engine = "started"
        /\ pc # "exit0"
        /\ ~sched[id].paused
        /\ \E outcome \in RunOutcomes(sched[id].func.job_class) :
            /\ lastRun' = [id |-> id, result |-> JobRun(sched[id].func, outcome)]
            /\ stopped' = (stopped \/ StopsControl(sched[id].func, outcome))
        /\ UNCHANGED <<pc, table, nextId, jobs, sched, oneshots, engine, calls,
                       failed, dirty, edits, faults>>
        /\ UNCHANGED zVars

(* The engine runs a one-off job, and forgets it. *)
FireOneShot ==
    \E k \in DOMAIN oneshots :
        /\ engine = "started"
        /\ pc # "exit0"
        /\ oneshots' = [n \in 1..(Len(oneshots) - 1) |->
                           IF n < k THEN oneshots[n] ELSE oneshots[n + 1]]
        /\ \E outcome \in RunOutcomes(oneshots[k].job_class) :
            /\ lastRun' = [id |-> oneshots[k].id,
                           result |-> JobRun(oneshots[k], outcome)]
            /\ stopped' = (stopped \/ StopsControl(oneshots[k], outcome))
        /\ UNCHANGED <<pc, table, nextId, jobs, sched, engine, calls, failed, dirty,
                       edits, faults>>
        /\ UNCHANGED zVars

Next ==
    \/ InsertRow
    \/ UpdateRow
    \/ DeleteRow
    \/ LoadJobs
    \/ StartEngine
    \/ LoopTest
    \/ RefreshJobs
    \/ Shutdown
    \/ MainReturns
    \/ FireRecurring
    \/ FireOneShot

Spec == Init /\ [][Next]_vars

----------------------------------------------------------------------------
(* The controller from start to stop: the table is as the administration  *)
(* tool left it before the script was started, and run() can be           *)
(* interrupted from the keyboard while it sleeps.                          *)

(* The rows the table holds when the script is started. *)
StartRows(id) == [id : {id}, name : {"n1"},
                  job_class : {"test.Stub", "stop_scheduler.Stop"},
                  opts : {"{}"}, enabled : BOOLEAN,
                  schedule : {NULL, SchedDaily1}]

StartTables ==
    {EmptyDict}
    \cup {[i \in {1} |-> r] : r \in StartRows(1)}
    \cup {[i \in {1, 2} |-> IF i = 1 THEN r ELSE q] :
              r \in StartRows(1), q \in StartRows(2)}

InitStop ==
    /\ pc = "init"
    /\ table \in StartTables
    /\ nextId = Cardinality(DOMAIN table) + 1
    /\ jobs = EmptyDict
    /\ sched = EmptyDict
    /\ oneshots = << >>
    /\ engine = "new"
    /\ stopped = FALSE
    /\ calls = << >>
    /\ failed = {}
    /\ lastRun = NoRun
    /\ dirty = FALSE
    /\ edits = 0
    /\ faults = 0
    /\ ZOff

(* KeyboardInterrupt is raised in the main thread while it is in sleep(): *)
(* control goes to the except clause of the loop.                          *)
Interrupt ==
    /\ pc = "sleep"
    /\ pc' = "interrupted"
    /\ UNCHANGED <<table, nextId, jobs, sched, oneshots, engine, stopped, calls,
                   failed, lastRun, dirty, edits, faults>>
    /\ UNCHANGED zVars

(* Mutation of HandleInterrupt: the interrupt is not caught and leaves    *)
(* run().                                                                    *)
HandleInterrupt_propagates ==
    /\ pc = "interrupted"
    /\ pc' = "failed"
    /\ UNCHANGED <<table, nextId, jobs, sched, oneshots, engine, stopped, calls,
                   failed, lastRun, dirty, edits, faults>>
    /\ UNCHANGED zVars

(* except (KeyboardInterrupt, SystemExit): self.stop() *)
HandleInterrupt ==
    /\ pc = "interrupted"
    /\ stopped' = TRUE
    /\ pc' = "check"
    /\ UNCHANGED <<table, nextId, jobs, sched, oneshots, engine, calls, failed,
                   lastRun, dirty, edits, faults>>
    /\ UNCHANGED zVars

NextStop ==
    \/ LoadJobs
    \/ StartEngine
    \/ LoopTest
    \/ RefreshJobs
    \/ Interrupt
    \/ HandleInterrupt
    \/ Shutdown
    \/ MainReturns
    \/ FireRecurring
    \/ FireOneShot

(* The main thread always goes on with its next statement; a sleep ends.  *)
FairStop ==
    /\ WF_vars(LoadJobs)
    /\ WF_vars(StartEngine)
    /\ WF_vars(LoopTest)
    /\ WF_vars(RefreshJobs)
    /\ WF_vars(HandleInterrupt)
    /\ WF_vars(Shutdown)

SpecStop == InitStop /\ [][NextStop]_vars /\ FairStop

----------------------------------------------------------------------------
(* The controller and one row: the table holds a row when the script is   *)
(* started, and the administration tool rewrites that row once, to any    *)
(* values, while run() sleeps.                                              *)

InitRow ==
    /\ pc = "init"
    /\ table \in {[i \in {1} |-> r] : r \in {q \in NewRows : q.id = 1}}
    /\ nextId = 2
    /\ jobs = EmptyDict
    /\ sched = EmptyDict
    /\ oneshots = << >>
    /\ engine = "new"
    /\ stopped = FALSE
    /\ calls = << >>
    /\ failed = {}
    /\ lastRun = NoRun
    /\ dirty = FALSE
    /\ edits = 0
    /\ faults = 0
    /\ ZOff

(* UPDATE scheduled_job SET name, job_class, opts, enabled, schedule *)
ReplaceRow ==
    /\ pc = "sleep"
    /\ edits = 0
    /\ \E id \in DOMAIN table :
         \E row \in Rows :
            /\ row.id = id
            /\ row # table[id]
            /\ table' = Put(table, id, row)
    /\ edits' = edits + 1
    /\ dirty' = TRUE
    /\ UNCHANGED <<pc, nextId, jobs, sched, oneshots, engine, stopped, calls,
                   failed, lastRun, faults>>
    /\ UNCHANGED zVars

NextRow ==
    \/ ReplaceRow
    \/ LoadJobs
    \/ StartEngine
    \/ LoopTest
    \/ RefreshJobs
    \/ Shutdown
    \/ MainReturns
    \/ FireRecurring
    \/ FireOneShot

SpecRow == InitRow /\ [][NextRow]_vars

----------------------------------------------------------------------------
(* The controller and a job which takes time: the engine runs the         *)
(* callback in a thread of its pool, and the main thread goes on while    *)
(* the job runs.  One running job is followed at a time.                   *)

(* The callback is entered: the class is resolved and constructed, which  *)
(* fails at once or leaves the run() of the implementation running.        *)
Entered(row) ==
    IF Dispatch(row, "returns").runs = 0
    THEN [id |-> row.id, result |-> "caught"]
    ELSE [id |-> row.id, result |-> "running", job |-> row]

(* Mutation of BeginTask: the callback drops the handle of its job. *)
BeginTask_drops ==
    /\ engine = "started"
    /\ pc # "exit0"
    /\ lastRun.result # "running"
    /\ \/ \E id \in DOMAIN sched :
            /\ ~sched[id].paused
            /\ lastRun' = Entered(sched[id].func)
            /\ jobs' = [k \in (DOMAIN jobs) \ {id} |-> jobs[k]]
            /\ UNCHANGED oneshots
       \/ \E k \in DOMAIN oneshots :
            /\ lastRun' = Entered(oneshots[k])
            /\ oneshots' = [n \in 1..(Len(oneshots) - 1) |->
                               IF n < k THEN oneshots[n] ELSE oneshots[n + 1]]
            /\ UNCHANGED jobs
    /\ UNCHANGED <<pc, table, nextId, sched, engine, stopped, calls, failed,
                   dirty, edits, faults>>
    /\ UNCHANGED zVars

(* The engine starts the callback of a recurring job which is due, or of  *)
(* a one-off job, which it forgets.                                         *)
BeginTask ==
    /\ engine = "started"
    /\ pc # "exit0"
    /\ lastRun.result # "running"
    /\ \/ \E id \in DOMAIN sched :
            /\ ~sched[id].paused
            /\ lastRun' = Entered(sched[id].func)
            /\ UNCHANGED oneshots
       \/ \E k \in DOMAIN oneshots :
            /\ lastRun' = Entered(oneshots[k])
            /\ oneshots' = [n \in 1..(Len(oneshots) - 1) |->
                               IF n < k THEN oneshots[n] ELSE oneshots[n + 1]]
    /\ UNCHANGED <<pc, table, nextId, jobs, sched, engine, stopped, calls, failed,
                   dirty, edits, faults>>
    /\ UNCHANGED zVars

(* The run() of the implementation ends, and with it the callback. *)
EndTask ==
    /\ lastRun.result = "running"
    /\ pc # "exit0"
    /\ \E outcome \in RunOutcomes(lastRun.job.job_class) :
         /\ lastRun' = [id |-> lastRun.id, result |-> JobRun(lastRun.job, outcome)]
         /\ stopped' = (stopped \/ StopsControl(lastRun.job, outcome))
    /\ UNCHANGED <<pc, table, nextId, jobs, sched, oneshots, engine, calls, failed,
                   dirty, edits, faults>>
    /\ UNCHANGED zVars

NextTask ==
    \/ LoadJobs
    \/ StartEngine
    \/ LoopTest
    \/ RefreshJobs
    \/ Shutdown
    \/ MainReturns
    \/ BeginTask
    \/ EndTask

(* The main thread always goes on with its next statement, and a sleep    *)
(* ends; nothing is assumed of the jobs, which may never end.              *)
FairTask ==
    /\ WF_vars(LoadJobs)
    /\ WF_vars(StartEngine)
    /\ WF_vars(LoopTest)
    /\ WF_vars(RefreshJobs)
    /\ WF_vars(Shutdown)

SpecTask == InitStop /\ [][NextTask]_vars /\ FairTask

----------------------------------------------------------------------------
(* The callback on its own: Control.Job.run applied to the Job of a row.  *)

DispatchClasses == JobClasses \cup {"test.Stub.run", "publishing_queue.Sweeper"}

DispatchRows == [id : {1}, name : Names,
                 job_class : DispatchClasses,
                 opts : OptsValues \cup {OptsDbserver, OptsCommand},
                 enabled : {TRUE}, schedule : {NULL, SchedDaily1}]

InitDispatch ==
    /\ pc = "callback"
    /\ table \in {[i \in {1} |-> r] : r \in DispatchRows}
    /\ nextId = 2
    /\ jobs = EmptyDict
    /\ sched = EmptyDict
    /\ oneshots = << >>
    /\ engine = "started"
    /\ stopped = FALSE
    /\ calls = << >>
    /\ failed = {}
    /\ lastRun = NoRun
    /\ dirty = FALSE
    /\ edits = 0
    /\ faults = 0
    /\ ZOff

(* The engine invokes the callback of the Job. *)
RunCallback ==
    /\ pc = "callback"
    /\ \E id \in DOMAIN table :
         \E outcome \in RunOutcomes(table[id].job_class) :
            /\ lastRun' = Dispatch(table[id], outcome)
            /\ stopped' = (stopped \/ StopsControl(table[id], outcome))
    /\ UNCHANGED <<pc, table, nextId, jobs, sched, oneshots, engine, calls,
                   failed, dirty, edits, faults>>
    /\ UNCHANGED zVars

NextDispatch == RunCallback

SpecDispatch == InitDispatch /\ [][NextDispatch]_vars

----------------------------------------------------------------------------
(* The controller with an engine which may reject a one-off add_job: the  *)
(* call raises, as any call of the engine can, for the rows in R.          *)

Rejecting(R) == [PassStart EXCEPT !.rejected = R]

(* The ids for which the one-off add_job was called by the pass. *)
Submitted(c) ==
    {c.calls[k].id : k \in {n \in DOMAIN c.calls : c.calls[n].op = "addOneShot"}}

(* Control.run up to scheduler.start(): __load_jobs *)
LoadJobsRejecting ==
    /\ pc = "init"
    /\ \/ ReadFails
       \/ \E failing \in SUBSET (DOMAIN table) :
          \E R \in SUBSET (DOMAIN table) :
            LET c == load_jobs(Rejecting(R), failing) IN
            /\ failing \subseteq Deleted(c)
            /\ R \subseteq Submitted(c)
            /\ faults + Cardinality(failing) + Cardinality(R) <= MaxFaults
            /\ faults' = faults + Cardinality(failing) + Cardinality(R)
            /\ Commit(c)
            /\ pc' = "loaded"
            /\ UNCHANGED <<nextId, engine, stopped, lastRun, edits>>
    /\ UNCHANGED zVars

(* sleep(self.SLEEP); self.__refresh_jobs() *)
RefreshJobsRejecting ==
    /\ pc = "sleep"
    /\ \/ ReadFails
       \/ \E failing \in SUBSET (DOMAIN table) :
          \E R \in SUBSET (DOMAIN table) :
            LET c == refresh_jobs(Rejecting(R), failing) IN
            /\ failing \subseteq Deleted(c)
            /\ R \subseteq Submitted(c)
            /\ faults + Cardinality(failing) + Cardinality(R) <= MaxFaults
            /\ faults' = faults + Cardinality(failing) + Cardinality(R)
            /\ Commit(c)
            /\ pc' = IF c.exc THEN "failed" ELSE "check"
            /\ UNCHANGED <<nextId, engine, stopped, lastRun, edits>>
    /\ UNCHANGED zVars

NextSubmit ==
    \/ ReplaceRow
    \/ LoadJobsRejecting
    \/ StartEngine
    \/ LoopTest
    \/ RefreshJobsRejecting
    \/ Shutdown
    \/ MainReturns
    \/ FireRecurring
    \/ FireOneShot

SpecSubmit == InitRow /\ [][NextSubmit]_vars

----------------------------------------------------------------------------
(* The controller interrupted in its loop, in sleep() or in a refresh     *)
(* pass, with a row which is edited between the passes.                    *)

(* KeyboardInterrupt or SystemExit is raised in the main thread while it  *)
(* is in __refresh_jobs, after the SELECT: neither is an Exception, so    *)
(* the except clause of the loop over the rows lets it through to the     *)
(* except clause of run().  The rows reached before it, in the order of   *)
(* the id, were processed; the others and the drop loop were not.          *)
InterruptRefresh ==
    /\ pc = "sleep"
    /\ \E reached \in SUBSET (DOMAIN table) :
       \E failing \in SUBSET reached :
         LET c == ProcessRows(PassStart, table, reached, failing) IN
         /\ \A i \in reached : \A j \in DOMAIN table : j < i => j \in reached
         /\ failing \subseteq Deleted(c)
         /\ faults + Cardinality(failing) <= MaxFaults
         /\ faults' = faults + Cardinality(failing)
         /\ Commit(c)
         /\ pc' = "interrupted"
         /\ UNCHANGED <<nextId, engine, stopped, lastRun, edits>>
    /\ UNCHANGED zVars

NextInterrupt ==
    \/ ReplaceRow
    \/ LoadJobs
    \/ StartEngine
    \/ LoopTest
    \/ RefreshJobs
    \/ Interrupt
    \/ InterruptRefresh
    \/ HandleInterrupt
    \/ Shutdown
    \/ MainReturns
    \/ FireRecurring
    \/ FireOneShot

SpecInterrupt == InitRow /\ [][NextInterrupt]_vars /\ FairStop

----------------------------------------------------------------------------
(* The ndscheduler server of src/Scheduler/cdr_scheduler.py               *)

ZombieDesc == "marking zombie run as failed"

ExecIds == 1..MaxExecs

COff ==
    /\ pc = "off"
    /\ table = EmptyDict
    /\ nextId = 1
    /\ jobs = EmptyDict
    /\ sched = EmptyDict
    /\ oneshots = << >>
    /\ engine = "new"
    /\ stopped = FALSE
    /\ calls = << >>
    /\ failed = {}
    /\ lastRun = NoRun
    /\ dirty = FALSE
    /\ edits = 0
    /\ faults = 0

(* Mutation of RunningEids: the query has no where clause. *)
RunningEids_all(execs) == DOMAIN execs

(* The rows select([eid]).where(state == running) yields. *)
RunningEids(execs) == {e \in DOMAIN execs : execs[e].state = "Running"}

(* datastore.update_execution(eid, state=failed, description=desc) *)
update_execution(execs, eid) ==
    [execs EXCEPT ![eid] = [state |-> "Failed", description |-> ZombieDesc]]

(* The loop of fix_zombies over eids, the rows in the order the query     *)
(* gave them; update_execution raises at position failAt (0: never), and  *)
(* nothing in fix_zombies catches it.                                      *)
RECURSIVE ZombieLoop(_, _, _, _)
ZombieLoop(z, eids, k, failAt) ==
    IF k > Len(eids) \/ z.exc THEN z
    ELSE LET logged == [z EXCEPT !.log = @ \cup {eids[k]}] IN
         IF k = failAt
         THEN [logged EXCEPT !.exc = TRUE]
         ELSE ZombieLoop([logged EXCEPT !.execs = update_execution(@, eids[k])],
                         eids, k + 1, failAt)

(* Mutation of fix_zombies: the rows are found and none is updated. *)
fix_zombies_idle(execs, eids, failAt) ==
    [execs |-> execs, log |-> {}, exc |-> FALSE]

(* CDRScheduler.fix_zombies *)
fix_zombies(execs, eids, failAt) ==
    ZombieLoop([execs |-> execs, log |-> {}, exc |-> FALSE], eids, 1, failAt)

(* The orders in which the query can yield the eids in S. *)
Orders(S) ==
    {q \in [1..Cardinality(S) -> S] : \A e \in S : \E k \in DOMAIN q : q[k] = e}

InitZ ==
    /\ zpc = "boot"
    /\ executions = EmptyDict
    /\ atStart = EmptyDict
    /\ sweeps = 0
    /\ zlog = {}
    /\ COff

(* CDRScheduler.start_scheduler: fix_zombies(), then the server's own     *)
(* start_scheduler, which is not reached when fix_zombies raises.         *)
StartScheduler ==
    /\ zpc = "boot"
    /\ \E eids \in Orders(RunningEids(executions)) :
         \E failAt \in 0..Len(eids) :
            LET z == fix_zombies(executions, eids, failAt) IN
            /\ executions' = z.execs
            /\ zlog' = z.log
            /\ zpc' = IF z.exc THEN "crashed" ELSE "started"
    /\ sweeps' = sweeps + 1
    /\ UNCHANGED atStart
    /\ UNCHANGED ctlVars

(* The running scheduler records a new execution of a job. *)
ScheduleExecution ==
    /\ zpc = "started"
    /\ \E eid \in ExecIds :
        /\ eid = Cardinality(DOMAIN executions) + 1
        /\ executions' = Put(executions, eid,
                             [state |-> "Scheduled", description |-> ""])
    /\ UNCHANGED <<zpc, atStart, sweeps, zlog>>
    /\ UNCHANGED ctlVars

(* The job of an execution recorded by this process starts. *)
BeginExecution ==
    /\ zpc = "started"
    /\ \E eid \in (DOMAIN executions) \ (DOMAIN atStart) :
        /\ executions[eid].state = "Scheduled"
        /\ executions' = [executions EXCEPT ![eid].state = "Running"]
    /\ UNCHANGED <<zpc, atStart, sweeps, zlog>>
    /\ UNCHANGED ctlVars

(* The job of an execution ends. *)
EndExecution ==
    /\ zpc = "started"
    /\ \E eid \in DOMAIN executions :
        /\ executions[eid].state = "Running"
        /\ \E result \in {"Succeeded", "Failed"} :
             executions' = [executions EXCEPT ![eid] =
                               [state |-> result, description |-> ""]]
    /\ UNCHANGED <<zpc, atStart, sweeps, zlog>>
    /\ UNCHANGED ctlVars

(* The python process is terminated, or has ended after start_scheduler   *)
(* raised, and a new process is started: the rows stay as they were.      *)
Restart ==
    /\ zpc \in {"started", "crashed"}
    /\ zpc' = "boot"
    /\ atStart' = executions
    /\ sweeps' = 0
    /\ zlog' = {}
    /\ UNCHANGED executions
    /\ UNCHANGED ctlVars

NextZ ==
    \/ StartScheduler
    \/ ScheduleExecution
    \/ BeginExecution
    \/ EndExecution
    \/ Restart

SpecZ == InitZ /\ [][NextZ]_vars

----------------------------------------------------------------------------
(* Properties of the controller, checked under Spec                       *)

(* A step which is a load or refresh pass whose SELECT succeeded. *)
LoadStep == pc = "init" /\ pc' = "loaded"

RefreshStep == pc = "sleep" /\ pc' \in {"check", "failed"}

PassStep == LoadStep \/ RefreshStep

(* The operations a pass called for the id, in the order of the calls. *)
OpsFor(cs, id) ==
    LET own == SelectSeq(cs, LAMBDA call : call.id = id)
    IN [k \in DOMAIN own |-> own[k].op]

Count(cs, op, id) == Cardinality({k \in DOMAIN cs : cs[k] = Call(op, id)})

RecurringOps == {"addRecurring", "modify", "reschedule", "pause", "resume",
                 "remove"}

NoRecurringCalls(cs) == \A k \in DOMAIN cs : cs[k].op \notin RecurringOps

(* The row has a schedule, as register() sees it. *)
HasSchedule(row) == ~Schedule(row).raises /\ Truthy(Schedule(row).value)

(* The row has no schedule, as register() sees it. *)
NoSchedule(row) == ~Schedule(row).raises /\ ~Truthy(Schedule(row).value)

(* The row is gone from the table, unless the DELETE of this pass failed. *)
RowDropped(id) == id \notin DOMAIN table' \/ faults' > faults

C2_AnySchedule ==
    [][PassStep =>
        \A id \in DOMAIN table :
            (id \notin DOMAIN jobs /\ HasSchedule(table[id]))
            => /\ Count(calls', "addRecurring", id) = 1
               /\ id \in DOMAIN jobs'
               /\ id \in DOMAIN sched'
               /\ jobs'[id] = table[id]
               /\ sched'[id].paused = ~table[id].enabled]_vars

(* C2, amended: a pass which reads a row with no handle and a schedule    *)
(* which the engine accepts as a cron specification calls addRecurring    *)
(* once for its id and nothing else, stores the row as handle, and the    *)
(* registration is suspended exactly when the row is not enabled.          *)
C2_NewRecurring ==
    [][PassStep =>
        \A id \in DOMAIN table :
            (/\ id \notin DOMAIN jobs
             /\ HasSchedule(table[id])
             /\ CronAccepts(Schedule(table[id]).value))
            => /\ OpsFor(calls', id) = <<"addRecurring">>
               /\ id \in DOMAIN jobs'
               /\ id \in DOMAIN sched'
               /\ jobs'[id] = table[id]
               /\ sched'[id].func = table[id]
               /\ sched'[id].trigger = Schedule(table[id]).value
               /\ sched'[id].paused = ~table[id].enabled]_vars

(* C2 witness: the latest pass registered a row which is not enabled, and *)
(* its registration is suspended.                                          *)
C2_Witness ==
    \E id \in DOMAIN jobs :
        /\ OpsFor(calls, id) = <<"addRecurring">>
        /\ id \in DOMAIN sched
        /\ ~jobs[id].enabled
        /\ sched[id].paused

(* C3: a pass which reads an enabled row with no schedule and no handle   *)
(* calls addOneShot once and then delete for its id, and nothing else,    *)
(* stores no handle, and the row is gone unless the DELETE failed; once   *)
(* the row is gone and has no handle, no pass makes a call for its id.     *)
C3_OneShot ==
    [][PassStep =>
        /\ \A id \in DOMAIN table :
              (id \notin DOMAIN jobs /\ NoSchedule(table[id]) /\ table[id].enabled)
              => /\ OpsFor(calls', id) = <<"addOneShot", "delete">>
                 /\ id \notin DOMAIN jobs'
                 /\ id \notin DOMAIN sched'
                 /\ RowDropped(id)
                 /\ \E k \in DOMAIN oneshots' :
                       k > Len(oneshots) /\ oneshots'[k] = table[id]
        /\ \A id \in JobIds :
              (id < nextId /\ id \notin DOMAIN table /\ id \notin DOMAIN jobs)
              => /\ OpsFor(calls', id) = << >>
                 /\ id \notin DOMAIN jobs'
                 /\ id \notin DOMAIN sched']_vars

(* C3 witness: the one-off run of row 1 is with the engine, the row is    *)
(* gone, and a later pass has made no call.                                *)
C3_Witness ==
    /\ pc = "check"
    /\ 1 \notin DOMAIN table
    /\ nextId > 1
    /\ Len(oneshots) = 1
    /\ oneshots[1].id = 1
    /\ calls = << >>
    /\ faults = 0

(* C4: a pass which reads, for an id with a handle, an enabled row with   *)
(* no schedule calls remove, addOneShot and delete for the id, once each  *)
(* and in this order, and nothing else; the handle and the registration   *)
(* are gone, and so is the row unless the DELETE failed.                   *)
C4_ScheduleRemoved ==
    [][PassStep =>
        \A id \in (DOMAIN table) \cap (DOMAIN jobs) :
            (NoSchedule(table[id]) /\ table[id].enabled)
            => /\ OpsFor(calls', id) = <<"remove", "addOneShot", "delete">>
               /\ id \notin DOMAIN jobs'
               /\ id \notin DOMAIN sched'
               /\ RowDropped(id)
               /\ \E k \in DOMAIN oneshots' :
                     k > Len(oneshots) /\ oneshots'[k] = table[id]]_vars

(* C4 witness: the latest pass unregistered job 1, submitted its one-off  *)
(* run and dropped its row.                                                *)
C4_Witness ==
    /\ OpsFor(calls, 1) = <<"remove", "addOneShot", "delete">>
    /\ 1 \notin DOMAIN table
    /\ 1 \notin DOMAIN jobs
    /\ 1 \notin DOMAIN sched
    /\ Len(oneshots) = 1

(* C5: a refresh pass calls remove once, and nothing else, for every id   *)
(* which has a handle and no row, and the handle and the registration     *)
(* are gone; an id with a handle whose row is still there and did not     *)
(* lose its schedule keeps its handle and sees no remove.                  *)
C5_DeletionPropagation ==
    [][RefreshStep =>
        \A id \in DOMAIN jobs :
            /\ id \notin DOMAIN table
               => /\ OpsFor(calls', id) = <<"remove">>
                  /\ id \notin DOMAIN jobs'
                  /\ id \notin DOMAIN sched'
            /\ (id \in DOMAIN table /\ ~NoSchedule(table[id]))
               => /\ Count(calls', "remove", id) = 0
                  /\ id \in DOMAIN jobs'
                  /\ id \in DOMAIN sched']_vars

(* C5 witness: the row of the registered job 1 was deleted, and the       *)
(* latest pass removed the job from the engine and from the handle map.   *)
C5_Witness ==
    /\ calls = <<Call("remove", 1)>>
    /\ nextId > 1
    /\ 1 \notin DOMAIN table
    /\ 1 \notin DOMAIN jobs
    /\ 1 \notin DOMAIN sched

(* The row differs from the handle in the enabled flag alone. *)
OnlyEnabledFlipped(id, from) ==
    /\ id \in DOMAIN jobs
    /\ id \in DOMAIN table
    /\ jobs[id].enabled = from
    /\ table[id] = [jobs[id] EXCEPT !.enabled = ~from]

(* C6, as stated: when enabled alone went from true to false the pass     *)
(* calls pause for the id and makes no other call; when it went from      *)
(* false to true the pass calls resume once.                               *)
C6_PauseAlone ==
    [][PassStep =>
        \A id \in JobIds :
            /\ OnlyEnabledFlipped(id, TRUE)
               => OpsFor(calls', id) = <<"pause">>
            /\ OnlyEnabledFlipped(id, FALSE)
               => Count(calls', "resume", id) = 1]_vars

(* C6, amended: when enabled alone went from true to false the pass calls *)
(* modify once and then pause once for the id, and makes none of          *)
(* addRecurring, reschedule, resume, remove; when it went from false to   *)
(* true the pass calls modify once and then resume once, and nothing else. *)
C6_Toggle ==
    [][PassStep =>
        \A id \in JobIds :
            /\ OnlyEnabledFlipped(id, TRUE)
               => /\ OpsFor(calls', id) = <<"modify", "pause">>
                  /\ sched'[id].paused
                  /\ jobs'[id] = table[id]
            /\ OnlyEnabledFlipped(id, FALSE)
               => /\ OpsFor(calls', id) = <<"modify", "resume">>
                  /\ ~sched'[id].paused
                  /\ jobs'[id] = table[id]]_vars

(* C6 witness: the latest pass paused job 1, whose row was disabled. *)
C6_Witness ==
    /\ OpsFor(calls, 1) = <<"modify", "pause">>
    /\ 1 \in DOMAIN sched
    /\ sched[1].paused
    /\ 1 \in DOMAIN jobs
    /\ ~jobs[1].enabled

----------------------------------------------------------------------------
(* Properties of the callback, checked under Spec                         *)

(* C8: whatever is raised while Control.Job.run resolves, constructs and  *)
(* runs the job is caught and logged and does not reach the engine, and   *)
(* the run of a callback changes neither the registrations nor the        *)
(* handles.                                                                *)
C8_DispatchIsolation ==
    [][/\ lastRun'.result # "escaped"
       /\ (lastRun' # lastRun) => (jobs' = jobs /\ sched' = sched)]_vars

----------------------------------------------------------------------------
(* Properties of the ndscheduler server, checked under SpecZ              *)

Failed == [state |-> "Failed", description |-> ZombieDesc]

(* C7: when start_scheduler gets through fix_zombies with no update      *)
(* raising, every row which was Running is Failed with the description    *)
(* "marking zombie run as failed", and every other row is as it was.      *)
C7_ZombieRecovery ==
    [][(zpc = "boot" /\ zpc' = "started") =>
        /\ DOMAIN executions' = DOMAIN executions
        /\ \A e \in DOMAIN executions :
              executions'[e] = IF executions[e].state = "Running"
                               THEN Failed ELSE executions[e]]_vars

(* C7 witness: the sweep of a started process marked a zombie as failed   *)
(* and left a row which had succeeded as it was.                           *)
C7_Witness ==
    /\ zpc = "started"
    /\ \E e \in DOMAIN atStart :
          atStart[e].state = "Running" /\ executions[e] = Failed
    /\ \E e \in DOMAIN atStart :
          atStart[e].state = "Succeeded" /\ executions[e] = atStart[e]

(* C9: whenever the scheduler of a process has been started, fix_zombies  *)
(* has run exactly once in that process, and no row which was Running     *)
(* when the process started is Running.                                    *)
C9_SweepBeforeStart ==
    zpc = "started" =>
        /\ sweeps = 1
        /\ \A e \in DOMAIN atStart :
              atStart[e].state = "Running" => executions[e].state # "Running"

(* C9 witness: the scheduler has been started, and a new execution runs,  *)
(* in a process which found a zombie when it started.                      *)
C9_Witness ==
    /\ zpc = "started"
    /\ sweeps = 1
    /\ \E e \in DOMAIN atStart : atStart[e].state = "Running"
    /\ \E e \in (DOMAIN executions) \ (DOMAIN atStart) :
          executions[e].state = "Running"

(* C10: when an update of fix_zombies fails, the scheduler is started all *)
(* the same, and every Running row but the one whose update failed has    *)
(* been corrected.                                                         *)
C10_UpdateFailureTolerated ==
    [][(zpc = "boot" /\ zpc' # "boot") =>
        /\ zpc' = "started"
        /\ Cardinality(RunningEids(executions')) <= 1]_vars

----------------------------------------------------------------------------
(* Failures of the job store, checked under Spec                          *)

(* A step in which the SELECT of a pass failed: a store fault was taken   *)
(* and no call of the pass was made.                                       *)
ReadFailure == faults' > faults /\ calls' = << >>

(* C11: when the SELECT of a refresh pass fails, run() goes on with the   *)
(* loop, and the handle map and the registrations are as they were.       *)
C11_RefreshReadSkipped ==
    [][(pc = "sleep" /\ ReadFailure)
          => (pc' = "check" /\ jobs' = jobs /\ sched' = sched)]_vars

(* C12: when the SELECT of the initial load fails, run() is left with the *)
(* exception: the engine is not started, and from then on the engine is   *)
(* never started and no pass runs, the only step left being the end of    *)
(* the script.                                                              *)
C12_StartupReadFatal ==
    [][/\ (pc = "init" /\ ReadFailure)
            => (pc' = "select_failed" /\ engine' = "new" /\ jobs' = jobs
                /\ sched' = sched)
       /\ (pc \in {"select_failed", "exit0"} /\ engine = "new")
            => (/\ pc' \in {"select_failed", "exit0"}
                /\ UNCHANGED <<engine, jobs, sched, oneshots, table, calls,
                               stopped>>)]_vars

(* C12 witness: the initial load failed on its SELECT with rows in the    *)
(* table, and nothing was registered nor started.                          *)
C12_Witness ==
    /\ pc = "select_failed"
    /\ engine = "new"
    /\ faults = 1
    /\ DOMAIN table # {}
    /\ jobs = EmptyDict
    /\ sched = EmptyDict

(* C13: the script never ends with exit status 0 when the engine was not  *)
(* started, which is when the SELECT of the initial load failed.           *)
C13_StartupExitNonZero == pc = "exit0" => engine # "new"

----------------------------------------------------------------------------
(* Malformed rows, checked under Spec                                     *)

(* What register() does for the row of the id on its own, from the state  *)
(* the pass starts in.                                                     *)
Alone(id) == register(PassStart, table[id], FALSE)

(* C14: in a load or refresh pass the rows logged as malformed are those  *)
(* for which register() raises; every other row of the table is handled  *)
(* by register() as it would be on its own, with the same calls and the   *)
(* same handle and registration; and the pass ends normally.               *)
C14_MalformedIsolation ==
    [][PassStep =>
        /\ pc' \in {"loaded", "check"}
        /\ failed' = {id \in DOMAIN table : Alone(id).exc}
        /\ \A id \in (DOMAIN table) \ failed' :
              /\ OpsFor(calls', id) = OpsFor(Alone(id).calls, id)
              /\ (id \in DOMAIN jobs') = (id \in DOMAIN Alone(id).jobs)
              /\ (id \in DOMAIN jobs') => jobs'[id] = Alone(id).jobs[id]
              /\ (id \in DOMAIN sched') = (id \in DOMAIN Alone(id).sched)
              /\ (id \in DOMAIN sched') => sched'[id] = Alone(id).sched[id]]_vars

(* C14 witness: the latest pass logged row 1 as malformed and registered  *)
(* row 2, which it read after it.                                          *)
C14_Witness ==
    /\ failed = {1}
    /\ 1 \notin DOMAIN jobs
    /\ OpsFor(calls, 2) = <<"addRecurring">>
    /\ 2 \in DOMAIN jobs
    /\ 2 \in DOMAIN sched

----------------------------------------------------------------------------
(* The calls of a pass and the state of the engine, checked under Spec    *)

(* The id has a handle and a row, as the pass finds them. *)
Known(id) == id \in DOMAIN jobs /\ id \in DOMAIN table

(* C16: in every pass pause is called for an id at most once, and only    *)
(* when its handle is enabled and its row is not; resume at most once,    *)
(* and only when its handle is not enabled and its row is; reschedule at  *)
(* most once, and only when the parsed schedule of the row differs from   *)
(* that of the handle.                                                      *)
C16_NoRedundantCalls ==
    [][PassStep =>
        \A id \in JobIds :
            /\ Count(calls', "pause", id) <= 1
            /\ Count(calls', "resume", id) <= 1
            /\ Count(calls', "reschedule", id) <= 1
            /\ Count(calls', "pause", id) = 1
                  => (Known(id) /\ jobs[id].enabled /\ ~table[id].enabled)
            /\ Count(calls', "resume", id) = 1
                  => (Known(id) /\ ~jobs[id].enabled /\ table[id].enabled)
            /\ Count(calls', "reschedule", id) = 1
                  => (Known(id)
                      /\ Schedule(table[id]).value # Schedule(jobs[id]).value)]_vars

(* C16 witness: the text of the schedule of job 1 was changed to another  *)
(* text of the same cron specification, and the latest pass called        *)
(* modify for it and nothing else.                                         *)
C16_Witness ==
    /\ OpsFor(calls, 1) = <<"modify">>
    /\ 1 \in DOMAIN jobs
    /\ 1 \in DOMAIN sched
    /\ jobs[1].schedule = SchedDaily1s
    /\ sched[1].func = jobs[1]
    /\ edits = 2

(* A pass has completed and logged no failure, and run() goes on. *)
PassCompleted == pc \in {"loaded", "check", "sleep", "exiting"} /\ failed = {}

(* C17: after a completed pass in which no call failed, a recurring job   *)
(* is suspended in the engine exactly when its handle is not enabled.      *)
C17_DisabledSuspended ==
    PassCompleted =>
        \A id \in (DOMAIN jobs) \cap (DOMAIN sched) :
            sched[id].paused = ~jobs[id].enabled

(* C18: a row which is still in the table after delete was called for it  *)
(* in the previous pass is not submitted to the engine again.              *)
C18_SubmittedOnce ==
    [][PassStep =>
        \A id \in DOMAIN table :
            Count(calls, "delete", id) > 0
            => Count(calls', "addOneShot", id) = 0]_vars

(* C19: in the initial load a row whose opts do not parse is logged as    *)
(* malformed, and gets neither a handle nor a registration.                *)
C19_MalformedOptsSkipped ==
    [][LoadStep =>
        \A id \in DOMAIN table :
            Loads(table[id].opts).raises
            => /\ id \in failed'
               /\ id \notin DOMAIN jobs'
               /\ id \notin DOMAIN sched']_vars

(* C20: when the stop flag is set while the loop sleeps, the next step of *)
(* run() leaves the loop, with no read of the table and no engine call.   *)
C20_StopCheckedAfterSleep ==
    [][(stopped /\ pc = "sleep" /\ pc' # pc)
          => (pc' = "exiting" /\ jobs' = jobs /\ sched' = sched
              /\ oneshots' = oneshots /\ table' = table)]_vars

----------------------------------------------------------------------------
(* Stopping the controller, checked under SpecStop                        *)

(* run() was left by an exception. *)
RunRaised ==
    \/ pc \in {"select_failed", "failed"}
    \/ pc = "exit0" /\ engine # "shutdown"

----------------------------------------------------------------------------
(* The life cycle of the controller, checked under SpecStop               *)

(* The state of the controller: Running from the entry of run() into the  *)
(* initial load until the loop is left, Draining until shutdown() has     *)
(* returned, Stopped before and after; Terminated when run() was left by  *)
(* an exception or the script has ended.                                   *)
ControllerState ==
    CASE pc = "init"    -> "Stopped"
      [] pc \in {"loaded", "check", "sleep", "interrupted"} -> "Running"
      [] pc = "exiting" -> "Draining"
      [] pc = "done"    -> "Stopped"
      [] OTHER          -> "Terminated"

----------------------------------------------------------------------------
(* The rows of the decision table, checked under SpecRow                  *)

(* C22: whenever the handle of a registered job holds the row which is in *)
(* the table, so that the next pass finds nothing to do for it, the       *)
(* engine holds the schedule of that row.                                   *)
C22_NoPartialApplication ==
    \A id \in (DOMAIN jobs) \cap (DOMAIN sched) \cap (DOMAIN table) :
        jobs[id] = table[id] => sched[id].trigger = Schedule(jobs[id]).value

(* No one-off run was submitted by the step. *)
NoneSubmitted == oneshots' = oneshots

(* The step submitted one one-off run, of the row of the id. *)
OneSubmitted(id) ==
    /\ Len(oneshots') = Len(oneshots) + 1
    /\ oneshots'[Len(oneshots')] = table[id]
    /\ \A k \in DOMAIN oneshots : oneshots'[k] = oneshots[k]

(* C23: a pass which reads a row with no schedule and enabled false whose *)
(* id has no handle makes no call for the id, stores no handle, submits   *)
(* nothing and leaves the row in the table as it is.                       *)
C23_NewDisabledNoSchedule ==
    [][PassStep =>
        \A id \in (DOMAIN table) \ (DOMAIN jobs) :
            (NoSchedule(table[id]) /\ ~table[id].enabled)
            => /\ OpsFor(calls', id) = << >>
               /\ id \notin failed'
               /\ id \notin DOMAIN jobs'
               /\ id \notin DOMAIN sched'
               /\ id \in DOMAIN table'
               /\ table'[id] = table[id]
               /\ \A k \in DOMAIN oneshots' :
                     k > Len(oneshots) => oneshots'[k].id # id]_vars

(* C23 witness: a refresh pass has run over the row of id 1, which never  *)
(* had a schedule and is not enabled, and the row is still there with no  *)
(* handle, no registration and no run submitted.                           *)
C23_Witness ==
    /\ pc = "check"
    /\ engine = "started"
    /\ edits = 0
    /\ 1 \in DOMAIN table
    /\ NoSchedule(table[1])
    /\ ~table[1].enabled
    /\ jobs = EmptyDict
    /\ sched = EmptyDict
    /\ oneshots = << >>
    /\ calls = << >>

(* C24: a pass which reads, for an id with a handle, a row with no        *)
(* schedule and enabled false calls remove for the id and nothing else,   *)
(* drops the handle and the registration, submits no one-off run and      *)
(* leaves the row in the table.                                             *)
C24_RemovedWhileDisabled ==
    [][PassStep =>
        \A id \in (DOMAIN table) \cap (DOMAIN jobs) :
            (NoSchedule(table[id]) /\ ~table[id].enabled)
            => /\ OpsFor(calls', id) = <<"remove">>
               /\ id \notin DOMAIN jobs'
               /\ id \notin DOMAIN sched'
               /\ id \in DOMAIN table'
               /\ table'[id] = table[id]
               /\ NoneSubmitted]_vars

(* C24 witness: the latest pass unregistered job 1, whose row lost its    *)
(* schedule and is not enabled; the row is still in the table.             *)
C24_Witness ==
    /\ calls = <<Call("remove", 1)>>
    /\ 1 \in DOMAIN table
    /\ NoSchedule(table[1])
    /\ ~table[1].enabled
    /\ jobs = EmptyDict
    /\ sched = EmptyDict
    /\ oneshots = << >>

(* The handle of the id has a schedule and is not enabled, and its row    *)
(* has no schedule and is enabled.                                          *)
Composite(id) ==
    /\ HasSchedule(jobs[id])
    /\ ~jobs[id].enabled
    /\ NoSchedule(table[id])
    /\ table[id].enabled

(* C25: a pass which finds a registered, disabled job whose row now has   *)
(* no schedule and is enabled calls remove, addOneShot and delete for the *)
(* id, once each and in this order, and nothing else; the handle and the  *)
(* registration are gone, one run of the new row is submitted, and the    *)
(* row is gone unless the DELETE failed.                                    *)
C25_CompositeTransition ==
    [][PassStep =>
        \A id \in (DOMAIN table) \cap (DOMAIN jobs) :
            Composite(id)
            => /\ OpsFor(calls', id) = <<"remove", "addOneShot", "delete">>
               /\ id \notin DOMAIN jobs'
               /\ id \notin DOMAIN sched'
               /\ OneSubmitted(id)
               /\ RowDropped(id)]_vars

(* C25 witness: the engine has run, once, the one-off run of job 1, which *)
(* was registered suspended until its row lost its schedule and became    *)
(* enabled; the row is gone.                                                 *)
C25_Witness ==
    /\ OpsFor(calls, 1) = <<"remove", "addOneShot", "delete">>
    /\ edits = 1
    /\ faults = 0
    /\ table = EmptyDict
    /\ jobs = EmptyDict
    /\ sched = EmptyDict
    /\ oneshots = << >>
    /\ lastRun = [id |-> 1, result |-> "ok"]

(* C26: a pass which finds that the row of a registered job differs from  *)
(* its handle and still has a schedule calls modify once for the id, the  *)
(* callback and the name of the registration and the handle become those  *)
(* of the new row, and reschedule is called, once, exactly when the       *)
(* parsed schedule of the row differs from that of the handle; a schedule *)
(* the engine accepts becomes the trigger.                                  *)
C26_Modification ==
    [][PassStep =>
        \A id \in (DOMAIN table) \cap (DOMAIN jobs) :
            (jobs[id] # table[id] /\ HasSchedule(table[id]))
            => LET differs == Schedule(table[id]).value # Schedule(jobs[id]).value
               IN /\ Count(calls', "modify", id) = 1
                  /\ OpsFor(calls', id)[1] = "modify"
                  /\ jobs'[id] = table[id]
                  /\ sched'[id].func = table[id]
                  /\ sched'[id].name = table[id].name
                  /\ Count(calls', "reschedule", id) = (IF differs THEN 1 ELSE 0)
                  /\ (differs /\ CronAccepts(Schedule(table[id]).value))
                        => sched'[id].trigger = Schedule(table[id]).value
                  /\ ~differs => sched'[id].trigger = sched[id].trigger]_vars

(* C26 witness: the latest pass rebound job 1 to a row with another name, *)
(* another class and another schedule.                                      *)
C26_Witness ==
    /\ OpsFor(calls, 1) = <<"modify", "reschedule">>
    /\ jobs[1].name = "n2"
    /\ jobs[1].job_class = "stop_scheduler.Stop"
    /\ sched[1].func = jobs[1]
    /\ sched[1].name = "n2"
    /\ sched[1].trigger = Schedule(jobs[1]).value
    /\ jobs[1].schedule = SchedDaily2

(* The two rows have the same name, job_class, schedule, enabled and opts. *)
SameFields(a, b) ==
    /\ a.name = b.name
    /\ a.job_class = b.job_class
    /\ a.schedule = b.schedule
    /\ a.enabled = b.enabled
    /\ a.opts = b.opts

(* C29: the row read for an id and its handle compare equal exactly when  *)
(* they have the same name, job_class, schedule, enabled and opts; when   *)
(* they do the pass does nothing for the id, and when they do not it      *)
(* makes a call for the id or logs the row as malformed.                   *)
C29_FullFieldEquality ==
    [][PassStep =>
        \A id \in (DOMAIN table) \cap (DOMAIN jobs) :
            /\ JobEq(table[id], jobs[id]) = SameFields(table[id], jobs[id])
            /\ SameFields(table[id], jobs[id])
                  => (OpsFor(calls', id) = << >> /\ id \notin failed'
                      /\ jobs'[id] = jobs[id])
            /\ ~SameFields(table[id], jobs[id])
                  => (OpsFor(calls', id) # << >> \/ id \in failed')]_vars

(* C29 witness: the opts of job 1 alone were changed, and the latest pass *)
(* called modify for it.                                                     *)
C29_Witness ==
    /\ OpsFor(calls, 1) = <<"modify">>
    /\ edits = 1
    /\ jobs[1].opts # "{}"
    /\ jobs[1].name = "n1"
    /\ jobs[1].job_class = "test.Stub"
    /\ jobs[1].schedule = SchedDaily1
    /\ jobs[1].enabled
    /\ ~sched[1].paused

----------------------------------------------------------------------------
(* The threads of the controller, checked under SpecTask                  *)

(* A step of the main thread inside a pass. *)
MainPass == pc \in {"init", "sleep"} /\ pc' \notin {"init", "sleep"}

(* C27: the handle map changes only in a step of the main thread which    *)
(* is the initial load or a refresh pass; a step in which a callback is   *)
(* entered or ends leaves it as it was.                                     *)
C27_HandleMapOwnership ==
    [][/\ (jobs' # jobs) => MainPass
       /\ (lastRun' # lastRun) => jobs' = jobs]_vars

(* C27 witness: the job stop_scheduler.Stop has run to its end and set    *)
(* the flag while the main thread slept, and the handle of the job is     *)
(* still the row of the table.                                              *)
C27_Witness ==
    /\ pc = "sleep"
    /\ stopped
    /\ lastRun.result = "ok"
    /\ lastRun.id \in DOMAIN jobs
    /\ jobs[lastRun.id].job_class = "stop_scheduler.Stop"
    /\ jobs[lastRun.id] = table[lastRun.id]

(* C28: passes are steps of the single main thread, one at a time: the    *)
(* calls, the handles and the registrations change only in such a step;   *)
(* and the main thread always gets from the loaded position to the loop,  *)
(* through the test of the flag and through the sleep and the pass which  *)
(* follows it, whether or not a job is running or ever ends.               *)
C28_PassesNotBlocked ==
    /\ [][(calls' # calls \/ jobs' # jobs \/ sched' # sched) => MainPass]_vars
    /\ (pc = "loaded") ~> (pc # "loaded")
    /\ (pc = "check") ~> (pc # "check")
    /\ (pc = "sleep" /\ lastRun.result = "running") ~> (pc # "sleep")

(* C28 witness: a refresh pass has completed, and the loop gone on, while *)
(* the job registered by the initial load is running.                      *)
C28_Witness ==
    /\ pc = "sleep"
    /\ lastRun.result = "running"
    /\ lastRun.id \in DOMAIN sched
    /\ calls = << >>
    /\ faults = 0
    /\ ~stopped

----------------------------------------------------------------------------
(* The dispatch of a job, checked under SpecDispatch                      *)

(* C30: a firing of the callback looks the class up by the text before    *)
(* the first dot of job_class as module and the text after it as type;    *)
(* when the class is found and constructed, it was constructed with the   *)
(* controller, the name of the job and the parsed opts, and its run() is  *)
(* invoked once; when job_class has no dot, the class is not found, opts  *)
(* do not parse or a parameter is not supported, run() is not invoked     *)
(* and the failure is logged.                                               *)
C30_DispatchProtocol ==
    lastRun.result # "none" =>
        LET row == table[lastRun.id]
            seg == Segments(row.job_class)
            opts == Loads(row.opts)
        IN /\ Len(seg) > 1
                => (lastRun.module = <<seg[1]>> /\ lastRun.type = Tail(seg))
           /\ lastRun.resolved = (Len(seg) = 2 /\ row.job_class \in DispatchClasses)
           /\ lastRun.constructed
                => /\ lastRun.resolved
                   /\ ~opts.raises
                   /\ lastRun.args = <<"control", row.name, opts.value>>
                   /\ lastRun.runs = 1
           /\ ~lastRun.constructed
                => (lastRun.runs = 0 /\ lastRun.result = "caught")
           /\ (~lastRun.resolved \/ opts.raises) => ~lastRun.constructed
           /\ (row.job_class = "stop_scheduler.Stop" /\ row.opts = OptsCommand)
                => ~lastRun.constructed

(* C30 witness: the class Stop was constructed with the controller, the   *)
(* name n2 and the parameter dbserver, and its run() has set the flag.     *)
C30_Witness ==
    /\ lastRun.result = "ok"
    /\ lastRun.module = <<"stop_scheduler">>
    /\ lastRun.type = <<"Stop">>
    /\ lastRun.args = <<"control", "n2", {<<"dbserver", "x">>}>>
    /\ lastRun.runs = 1
    /\ stopped

(* C31: when the class of a firing has a SUPPORTED_PARAMETERS which is    *)
(* not None and the parsed opts are not empty and name a parameter        *)
(* outside of it, constructing the class raises and its run() is not      *)
(* invoked; Sweeper, whose SUPPORTED_PARAMETERS is empty, is never run    *)
(* with opts which are not empty; when SUPPORTED_PARAMETERS is None or    *)
(* the opts are empty, a class which was found is constructed and run.    *)
C31_SupportedParameters ==
    (lastRun.result # "none" /\ lastRun.resolved /\ ~Loads(table[lastRun.id].opts).raises) =>
        LET row == table[lastRun.id]
            opts == Loads(row.opts).value
            keys == {item[1] : item \in opts}
            sup == SupportedParameters(row.job_class)
        IN /\ (sup.restricted /\ opts # {} /\ ~(keys \subseteq sup.names))
                => (~lastRun.constructed /\ lastRun.runs = 0
                    /\ lastRun.result = "caught" /\ ~stopped)
           /\ (row.job_class = "publishing_queue.Sweeper" /\ opts # {})
                => lastRun.runs = 0
           /\ (~sup.restricted \/ opts = {})
                => (lastRun.constructed /\ lastRun.runs = 1)
           /\ (sup.restricted /\ keys \subseteq sup.names)
                => (lastRun.constructed /\ lastRun.runs = 1)

(* C31 witness: Sweeper was found and given the parameter dbserver, and   *)
(* its run() was not invoked.                                               *)
C31_Witness ==
    /\ lastRun.result = "caught"
    /\ lastRun.type = <<"Sweeper">>
    /\ lastRun.resolved
    /\ table[lastRun.id].opts = OptsDbserver
    /\ lastRun.runs = 0

----------------------------------------------------------------------------
(* The handle map and the engine                                           *)

(* C32: after the load and after every refresh pass which came to its     *)
(* end, the ids of the handle map are the ids of the recurring jobs       *)
(* registered in the engine.                                                *)
C32_HandlesMirrorEngine ==
    pc \in {"loaded", "check", "sleep", "exiting", "done"}
        => DOMAIN jobs = DOMAIN sched

(* C32 witness: a refresh pass dropped the job 1, whose row is gone, from *)
(* the engine and from the handle map, which had both held it.             *)
C32_Witness ==
    /\ pc = "check"
    /\ failed = {}
    /\ 1 \notin DOMAIN table
    /\ calls = <<Call("remove", 1)>>
    /\ DOMAIN jobs = {}
    /\ DOMAIN sched = {}

(* C33: every Job in the handle map has a schedule which is not empty;    *)
(* and a pass which reads a row without a schedule for an id of the map   *)
(* leaves the map without that id.                                          *)
C33_HandlesAreRecurring ==
    /\ [](\A id \in DOMAIN jobs : HasSchedule(jobs[id]))
    /\ [][(PassStep /\ ~ReadFailure)
            => \A id \in DOMAIN jobs \cap DOMAIN table :
                  NoSchedule(table[id]) => id \notin DOMAIN jobs']_vars

(* C33 witness: the row of a recurring job was left without a schedule    *)
(* and disabled, and the pass has taken the job out of the engine and     *)
(* out of the handle map, where no placeholder stands for it.              *)
C33_Witness ==
    /\ pc = "check"
    /\ 1 \in DOMAIN table
    /\ NoSchedule(table[1])
    /\ ~table[1].enabled
    /\ calls = <<Call("remove", 1)>>
    /\ 1 \notin DOMAIN jobs

----------------------------------------------------------------------------
(* The end of Control.run                                                  *)

(* C34: when run() has returned or raised after the engine was started,   *)
(* the engine has been shut down.                                           *)
C34_ShutdownWhenRunEnds ==
    (pc \in {"done", "select_failed", "failed", "exit0"} /\ engine # "new")
        => engine = "shutdown"

----------------------------------------------------------------------------
(* A row of a registered job which makes register() raise                  *)

(* The handle and the registration of the id are what they were, and the  *)
(* pass did not call remove_job for it.                                     *)
Untouched(id) ==
    /\ id \in DOMAIN jobs' /\ jobs'[id] = jobs[id]
    /\ id \in DOMAIN sched' /\ sched'[id] = sched[id]
    /\ Count(calls', "remove", id) = 0

(* C35: when a refresh pass logs the row of a job which has a handle as   *)
(* malformed, because processing it raised, the handle and the            *)
(* registration of the job are left as they were, and remove_job is not   *)
(* called for the id.                                                        *)
C35_MalformedEditKeepsJob ==
    [][(RefreshStep /\ ~ReadFailure)
         => \A id \in DOMAIN jobs \cap DOMAIN sched :
               id \in failed' => Untouched(id)]_vars

----------------------------------------------------------------------------
(* One-off jobs and an engine which may reject them, checked under        *)
(* SpecSubmit                                                                *)

(* C36: in every pass, delete_job is called for a row only right after    *)
(* the one-off add_job for the row has returned, with the job submitted;  *)
(* when that add_job raises, the row is logged as malformed and stays in  *)
(* the table without a handle, nothing is submitted, and a pass which     *)
(* finds an enabled row with no schedule and no handle calls the one-off  *)
(* add_job for it; so a row leaves the table in a pass only with its job  *)
(* submitted.                                                                *)
C36_SubmitBeforeDelete ==
    [][(PassStep /\ ~ReadFailure)
         => \A id \in DOMAIN table :
              LET ops == OpsFor(calls', id) IN
              /\ \A k \in DOMAIN ops :
                    ops[k] = "delete"
                       => /\ k > 1
                          /\ ops[k - 1] = "addOneShot"
                          /\ id \notin failed'
                          /\ OneSubmitted(id)
              /\ (Count(calls', "addOneShot", id) = 1 /\ id \in failed')
                    => /\ Count(calls', "delete", id) = 0
                       /\ id \in DOMAIN table'
                       /\ table'[id] = table[id]
                       /\ id \notin DOMAIN jobs'
                       /\ NoneSubmitted
              /\ (id \notin DOMAIN jobs /\ NoSchedule(table[id]) /\ table[id].enabled)
                    => Count(calls', "addOneShot", id) = 1
              /\ id \notin DOMAIN table' => OneSubmitted(id)]_vars

(* C36 witness: the engine rejected the one-off job of the row once, and  *)
(* a later pass has submitted it and then deleted the row; the job has    *)
(* not run yet.                                                              *)
C36_Witness ==
    /\ pc = "check"
    /\ faults = 1
    /\ lastRun = NoRun
    /\ table = EmptyDict
    /\ calls = <<Call("addOneShot", 1), Call("delete", 1)>>
    /\ Len(oneshots) = 1

----------------------------------------------------------------------------
(* A schedule which is present and empty, checked under SpecRow            *)

EmptySchedules == {"", "{}"}

(* What register() does with the row, the Job submitted left aside. *)
Effect(row, deleteFails) ==
    LET c == register(PassStart, row, deleteFails)
    IN <<c.calls, c.jobs, c.sched, c.table, c.exc, Len(c.oneshots)>>

(* C37: a pass which reads a row whose schedule is the empty string or    *)
(* the JSON object without fields leaves the id out of the recurring jobs *)
(* of the engine and out of the handle map; register() does with the row  *)
(* what it does with the same row with schedule NULL; and when the row is *)
(* enabled, its job is submitted once and the row is deleted.              *)
C37_EmptyScheduleIsNone ==
    [][(PassStep /\ ~ReadFailure)
         => \A id \in DOMAIN table :
              table[id].schedule \in EmptySchedules
                 => /\ id \notin DOMAIN sched'
                    /\ id \notin DOMAIN jobs'
                    /\ Count(calls', "addRecurring", id) = 0
                    /\ \A deleteFails \in BOOLEAN :
                          Effect(table[id], deleteFails)
                            = Effect([table[id] EXCEPT !.schedule = NULL], deleteFails)
                    /\ table[id].enabled
                          => /\ OpsFor(calls', id)
                                  \in {<<"addOneShot", "delete">>,
                                       <<"remove", "addOneShot", "delete">>}
                             /\ OneSubmitted(id)
                             /\ RowDropped(id)
                    /\ ~table[id].enabled => NoneSubmitted]_vars

(* C37 witness: the row with the schedule {} was enabled; its job was     *)
(* submitted as a one-off job and the row was deleted.                      *)
C37_Witness ==
    /\ pc \in {"loaded", "check"}
    /\ calls = <<Call("addOneShot", 1), Call("delete", 1)>>
    /\ table = EmptyDict
    /\ Len(oneshots) = 1
    /\ oneshots[1].schedule = "{}"
    /\ sched = EmptyDict

----------------------------------------------------------------------------
(* An interrupt in the loop, checked under SpecInterrupt                   *)

(* C38: an interrupt raised in the main thread in sleep() or in a refresh *)
(* pass is caught by run(): the next step of the main thread sets the     *)
(* stop flag and goes to the test of the loop, which is left there; the   *)
(* step after the loop shuts the engine down; and every interrupt is      *)
(* followed by the shutdown of the engine and the return of run().         *)
C38_InterruptStops ==
    /\ [][(pc = "interrupted" /\ pc' # pc)
             => (pc' = "check" /\ stopped' /\ engine' = "started")]_vars
    /\ [][(stopped /\ pc = "check" /\ pc' # pc) => pc' = "exiting"]_vars
    /\ [][(pc = "exiting" /\ pc' # pc)
             => (pc' = "done" /\ engine' = "shutdown")]_vars
    /\ (pc = "interrupted") ~> (pc = "done" /\ engine = "shutdown" /\ stopped)

(* C38 witness: the row of the recurring job was edited, the refresh pass *)
(* which read it was interrupted before it reached the row, and run() has *)
(* shut the engine down; no job has run, so that nothing else has set the *)
(* flag.                                                                     *)
C38_Witness ==
    /\ pc = "done"
    /\ engine = "shutdown"
    /\ stopped
    /\ lastRun = NoRun
    /\ edits = 1
    /\ ~dirty
    /\ failed = {}
    /\ calls = << >>
    /\ 1 \in DOMAIN jobs
    /\ HasSchedule(table[1])
    /\ jobs[1] # table[1]

====
